---- MODULE Spec2Model ----
(***************************************************************************)
(* reqwest-extra: ErrorWithBody and ResponseExt::error_for_status_with_body *)
(* (src/lib.rs), modelled as a state machine.                              *)
(*                                                                         *)
(* One behaviour is one call site: either a request fails before there is  *)
(* a response and the reqwest::Error is converted with From, or a response *)
(* arrives and error_for_status_with_body is called on it.  The future of  *)
(* the async fn is polled by the caller's executor; its only await is the  *)
(* body drain `self.bytes().await`.  A value of ErrorWithBody, once held,  *)
(* is used through its public methods.                                     *)
(***************************************************************************)
EXTENDS Integers, Sequences, FiniteSets, TLC

\* ------------------------------------------------------------------ bounds
\* Longest response body, in bytes.
MaxBodyLen == 2
\* Most method calls made on one ErrorWithBody value.
MaxOps == 2

\* ------------------------------------------------------------- input sets
\* http::StatusCode values the responses carry: the edges of every class.
Statuses == {100, 199, 200, 399, 400, 403, 500, 599, 600}

\* The urls of responses and of with_url.
Urls == {"http://a/", "http://b/?t=s"}

\* Bytes a body is made of: 'A', line feed, 0xC8.
ByteVals == {65, 10, 200}

NoUrl == "-"

RECURSIVE SeqsUpTo(_, _)
SeqsUpTo(S, n) ==
    IF n = 0 THEN {<<>>}
    ELSE LET shorter == SeqsUpTo(S, n - 1)
         IN  shorter \cup {Append(s, x) : s \in {t \in shorter : Len(t) = n - 1}, x \in S}

Bodies == SeqsUpTo(ByteVals, MaxBodyLen)

\* reqwest::Response as this crate uses it: status, url and the body stream.
Responses == [status : Statuses, url : Urls, body : Bodies]

\* reqwest::Error is a kind, the status of a Kind::Status error (0 otherwise)
\* and the optional url.  The errors Response::bytes can end with: a body
\* error or a decode error, neither with a url.
ReadErrors == [kind : {"Body", "Decode"}, code : {0}, url : {NoUrl}]

\* Errors a request yields before any response exists (converted by From),
\* and the errors a caller may hold of its own.
RequestErrors == [kind : {"Request"}, code : {0}, url : Urls \cup {NoUrl}]

\* Result<Bytes, reqwest::Error> and the Option around it.
Ok(b) == [tag |-> "Ok", bytes |-> b]
Err(x) == [tag |-> "Err", err |-> x]
None == [tag |-> "None"]
Some(r) == [tag |-> "Some", val |-> r]

\* ------------------------------------------------------------ reqwest side
\* http::StatusCode::is_client_error / is_server_error.
is_client_error(code) == code >= 400 /\ code < 500
is_server_error(code) == code >= 500 /\ code < 600

\* reqwest::error::status_code(url, status).
status_code(url, status) == [kind |-> "Status", code |-> status, url |-> url]

\* Response::error_for_status_ref as called at lib.rs:184: Err exactly for
\* client and server errors, with the response's url attached.
error_for_status_ref(resp) ==
    IF is_client_error(resp.status) \/ is_server_error(resp.status)
    THEN [ok |-> FALSE, err |-> status_code(resp.url, resp.status)]
    ELSE [ok |-> TRUE, err |-> status_code(NoUrl, 0)]

\* reqwest::Error::with_url / without_url, as called at lib.rs:102 and 112.
error_with_url(e, url) == [e EXCEPT !.url = url]
error_without_url(e) == [e EXCEPT !.url = NoUrl]

\* http::StatusCode::canonical_reason, or the text Display falls back on.
canonical_reason(code) ==
    CASE code = 100 -> "Continue"
      [] code = 200 -> "OK"
      [] code = 400 -> "Bad Request"
      [] code = 403 -> "Forbidden"
      [] code = 500 -> "Internal Server Error"
      [] OTHER -> "<unknown status code>"

Digit(d) == <<"0", "1", "2", "3", "4", "5", "6", "7", "8", "9">>[d + 1]

\* A three-digit status in decimal.
StatusDigits(code) ==
    Digit(code \div 100) \o Digit((code \div 10) % 10) \o Digit(code % 10)

\* impl Display for reqwest::Error, the `{}` of lib.rs:120 and :127.
error_display(e) ==
    LET head == CASE e.kind = "Status" ->
                       (IF is_client_error(e.code) THEN "HTTP status client error"
                                                   ELSE "HTTP status server error")
                       \o " (" \o StatusDigits(e.code) \o " " \o canonical_reason(e.code) \o ")"
                  [] e.kind = "Request" -> "error sending request"
                  [] e.kind = "Body" -> "request or response body error"
                  [] e.kind = "Decode" -> "error decoding response body"
    IN  IF e.url = NoUrl THEN head ELSE head \o " for url (" \o e.url \o ")"

HexDigit(d) ==
    <<"0", "1", "2", "3", "4", "5", "6", "7", "8", "9", "a", "b", "c", "d", "e", "f">>[d + 1]

\* The printable ASCII bytes the bodies use, as characters.
AsciiChar(b) ==
    CASE b = 65 -> "A"
      [] b = 34 -> "\""
      [] b = 92 -> "\\"
      [] OTHER -> "?"

\* One byte of impl Debug for bytes::Bytes, the `{body:?}` of lib.rs:124.
byte_debug(b) ==
    IF b = 10 THEN "\\n"
    ELSE IF b = 13 THEN "\\r"
    ELSE IF b = 9 THEN "\\t"
    ELSE IF b = 92 \/ b = 34 THEN "\\" \o AsciiChar(b)
    ELSE IF b = 0 THEN "\\0"
    ELSE IF b >= 32 /\ b < 127 THEN AsciiChar(b)
    ELSE "\\x" \o HexDigit(b \div 16) \o HexDigit(b % 16)

RECURSIVE bytes_escaped(_)
bytes_escaped(bs) ==
    IF bs = <<>> THEN "" ELSE byte_debug(Head(bs)) \o bytes_escaped(Tail(bs))

bytes_debug(bs) == "b\"" \o bytes_escaped(bs) \o "\""

\* ------------------------------------------------------- ErrorWithBody
\* struct ErrorWithBody { inner, body }.
ErrorWithBody(inner, body) == [inner |-> inner, body |-> body]

\* impl From<reqwest::Error> for ErrorWithBody.
from(err) == ErrorWithBody(err, None)

\* with_url as it would be keeping a url the error already has.
with_url_keeps(self, url) ==
    IF self.inner.url = NoUrl
    THEN ErrorWithBody(error_with_url(self.inner, url), self.body)
    ELSE self

\* with_url as it would be rebuilt through From: `self.inner.with_url(url).into()`.
with_url_drops_body(self, url) == from(error_with_url(self.inner, url))

\* ErrorWithBody::with_url / without_url.
with_url(self, url) == ErrorWithBody(error_with_url(self.inner, url), self.body)
without_url(self) == ErrorWithBody(error_without_url(self.inner), self.body)

\* into_parts as it would be handing out the error without its url.
into_parts_strips(self) == <<error_without_url(self.inner), self.body>>

\* ErrorWithBody::into_inner / into_body / into_parts.
into_inner(self) == self.inner
into_body(self) == self.body
into_parts(self) == <<self.inner, self.body>>

\* fmt as it would be with `{body}`-like output: the escaped bytes without
\* the b"..." around them.
fmt_unquoted(self) ==
    LET head == error_display(self.inner)
    IN  IF self.body.tag = "Some"
        THEN IF self.body.val.tag = "Ok"
             THEN head \o ", body: " \o bytes_escaped(self.body.val.bytes)
             ELSE head \o ", error reading body: " \o error_display(self.body.val.err)
        ELSE head

\* impl Display for ErrorWithBody.
fmt(self) ==
    LET head == error_display(self.inner)
    IN  IF self.body.tag = "Some"
        THEN IF self.body.val.tag = "Ok"
             THEN head \o ", body: " \o bytes_debug(self.body.val.bytes)
             ELSE head \o ", error reading body: " \o error_display(self.body.val.err)
        ELSE head

\* impl Error for ErrorWithBody: source() is Some(&self.inner).
source(self) == self.inner

\* ------------------------------------------------------------------ state
VARIABLES
    pc,         \* where the call site is
    response,   \* the Response error_for_status_with_body was called on
    drained,    \* bytes pulled off the response's body stream so far
    buf,        \* bytes collected by the pending Response::bytes future
    e,          \* the status error held across the await
    result,     \* what the future resolved to
    ewb,        \* the ErrorWithBody value the caller holds
    made,       \* that value as it was constructed
    origin,     \* how it was constructed: "From" or "status"
    given,      \* the reqwest::Error handed to From
    lastOp,     \* the last method called on it
    arg,        \* the url given to the last with_url
    out,        \* what the last method returned
    nOps,       \* method calls made on it
    urlOps,     \* whether with_url or without_url was among them
    written,    \* whether a write went through inner_mut or body_mut
    inspected,  \* calls of error_for_status_ref
    reads,      \* calls of Response::bytes
    streamErr,  \* the error the body stream ended in, if it did
    payload     \* what the caller read from a passed response

vars == <<pc, response, drained, buf, e, result, ewb, made, origin, given, lastOp, arg,
          out, nOps, urlOps, written, inspected, reads, streamErr, payload>>

future == <<response, drained, buf, e, result, inspected, reads, streamErr, payload>>
value == <<ewb, made, origin, given>>
calls == <<lastOp, arg, out, nOps, urlOps, written>>

NoResponse == [tag |-> "NoResponse"]
NoError == [tag |-> "NoError"]
NoValue == [tag |-> "NoValue"]
Pending == [tag |-> "Pending"]
Passed(resp) == [tag |-> "Passed", response |-> resp]
Failed(err) == [tag |-> "Failed", err |-> err]
Unit == [tag |-> "unit"]
Text(s) == [tag |-> "text", s |-> s]
ErrorRef(x) == [tag |-> "error", e |-> x]
BodyRef(x) == [tag |-> "body", b |-> x]
Parts(p) == [tag |-> "parts", inner |-> p[1], body |-> p[2]]

Init ==
    /\ pc = "Start"
    /\ response = NoResponse
    /\ drained = 0
    /\ buf = <<>>
    /\ e = NoError
    /\ result = Pending
    /\ ewb = NoValue
    /\ made = NoValue
    /\ origin = "none"
    /\ given = NoError
    /\ lastOp = "none"
    /\ arg = NoUrl
    /\ out = Unit
    /\ nOps = 0
    /\ urlOps = FALSE
    /\ written = FALSE
    /\ inspected = 0
    /\ reads = 0
    /\ streamErr = NoError
    /\ payload = <<>>

\* ---------------------------------------------- error_for_status_with_body
\* A response arrived and error_for_status_with_body(self) is called: the
\* future exists and has not run (Unchecked).
Call(resp) ==
    /\ pc = "Start"
    /\ pc' = "Unchecked"
    /\ response' = resp
    /\ UNCHANGED <<drained, buf, e, result, inspected, reads, streamErr, payload>>
    /\ UNCHANGED <<value, calls>>

\* Poll as it would be with the body drained before the status is looked at.
Poll_drains ==
    /\ pc = "Unchecked"
    /\ inspected' = inspected + 1
    /\ reads' = reads + 1
    /\ drained' = Len(response.body)
    /\ buf' = response.body
    /\ LET r == error_for_status_ref(response)
       IN  IF r.ok
           THEN /\ result' = Passed(response)
                /\ pc' = "Checked"
                /\ UNCHANGED e
           ELSE /\ e' = r.err
                /\ pc' = "Reading"
                /\ UNCHANGED result
    /\ UNCHANGED <<response, streamErr, payload>>
    /\ UNCHANGED <<value, calls>>

\* The first poll, lib.rs:184-187: error_for_status_ref decides; Ok resolves
\* the future with self, Err keeps the error and starts self.bytes().
Poll ==
    /\ pc = "Unchecked"
    /\ inspected' = inspected + 1
    /\ LET r == error_for_status_ref(response)
       IN  IF r.ok
           THEN /\ result' = Passed(response)
                /\ pc' = "Checked"
                /\ UNCHANGED <<e, reads>>
           ELSE /\ e' = r.err
                /\ reads' = reads + 1
                /\ pc' = "Reading"
                /\ UNCHANGED result
    /\ UNCHANGED <<response, drained, buf, streamErr, payload>>
    /\ UNCHANGED <<value, calls>>

\* The pending bytes() receives the next frame of the body.
ReadFrame ==
    /\ pc = "Reading"
    /\ drained < Len(response.body)
    /\ buf' = Append(buf, response.body[drained + 1])
    /\ drained' = drained + 1
    /\ UNCHANGED <<pc, response, e, result, inspected, reads, streamErr, payload>>
    /\ UNCHANGED <<value, calls>>

\* failed as it would be keeping only a body that was read: `body.ok()`.
failed_ok_only(inner, body) ==
    ErrorWithBody(inner, IF body.tag = "Ok" THEN Some(body) ELSE None)

\* lib.rs:188-191, with `body` the outcome of the await.
failed(inner, body) == ErrorWithBody(inner, Some(body))

\* ReadDone as it would be dropping what was read, as error_for_status does.
ReadDone_empty ==
    /\ pc = "Reading"
    /\ drained = Len(response.body)
    /\ result' = Failed(failed(e, Ok(<<>>)))
    /\ ewb' = result'.err
    /\ made' = result'.err
    /\ origin' = "status"
    /\ pc' = "Checked"
    /\ UNCHANGED <<response, drained, buf, e, inspected, reads, streamErr, payload>>
    /\ UNCHANGED <<given, calls>>

\* The await completes at the end of the stream: body is Ok(bytes).
ReadDone ==
    /\ pc = "Reading"
    /\ drained = Len(response.body)
    /\ result' = Failed(failed(e, Ok(buf)))
    /\ ewb' = result'.err
    /\ made' = result'.err
    /\ origin' = "status"
    /\ pc' = "Checked"
    /\ UNCHANGED <<response, drained, buf, e, inspected, reads, streamErr, payload>>
    /\ UNCHANGED <<given, calls>>

\* ReadError as it would be with one retry of the body read.
ReadError_retries(err) ==
    /\ pc = "Reading"
    /\ streamErr' = err
    /\ IF reads < 2
       THEN /\ reads' = reads + 1
            /\ UNCHANGED <<pc, result, value>>
       ELSE /\ result' = Failed(failed(e, Err(err)))
            /\ ewb' = result'.err
            /\ made' = result'.err
            /\ origin' = "status"
            /\ pc' = "Checked"
            /\ UNCHANGED <<reads, given>>
    /\ UNCHANGED <<response, drained, buf, e, inspected, payload>>
    /\ UNCHANGED calls

\* ReadError as it would be with `self.bytes().await?`: the read error
\* converted by From takes the place of the status error.
ReadError_masks(err) ==
    /\ pc = "Reading"
    /\ streamErr' = err
    /\ result' = Failed(from(err))
    /\ ewb' = result'.err
    /\ made' = result'.err
    /\ origin' = "status"
    /\ pc' = "Checked"
    /\ UNCHANGED <<response, drained, buf, e, inspected, reads, payload>>
    /\ UNCHANGED <<given, calls>>

\* The await completes with the stream's error: body is Err(error).
ReadError(err) ==
    /\ pc = "Reading"
    /\ streamErr' = err
    /\ result' = Failed(failed(e, Err(err)))
    /\ ewb' = result'.err
    /\ made' = result'.err
    /\ origin' = "status"
    /\ pc' = "Checked"
    /\ UNCHANGED <<response, drained, buf, e, inspected, reads, payload>>
    /\ UNCHANGED <<given, calls>>

\* The caller drops the future before it resolved.
Drop ==
    /\ pc \in {"Unchecked", "Reading"}
    /\ pc' = "Dropped"
    /\ UNCHANGED <<future, value, calls>>

\* The caller reads the body of the response it got back.
ReadPassed ==
    /\ pc = "Checked"
    /\ result.tag = "Passed"
    /\ payload' = SubSeq(result.response.body, drained + 1, Len(result.response.body))
    /\ drained' = Len(result.response.body)
    /\ pc' = "Done"
    /\ UNCHANGED <<response, buf, e, result, inspected, reads, streamErr>>
    /\ UNCHANGED <<value, calls>>

\* ------------------------------------------------------- the value's uses
\* A request failed before any response: `?` converts the error.
From(err) ==
    /\ pc = "Start"
    /\ given' = err
    /\ ewb' = from(err)
    /\ made' = ewb'
    /\ origin' = "From"
    /\ pc' = "Converted"
    /\ UNCHANGED <<future, calls>>

\* The caller holds an ErrorWithBody it has not moved out of.
Holding == pc \in {"Checked", "Converted"} /\ ewb # NoValue /\ nOps < MaxOps

Called(op, ret) ==
    /\ lastOp' = op
    /\ out' = ret
    /\ nOps' = nOps + 1

Inner ==
    /\ Holding
    /\ Called("inner", ErrorRef(ewb.inner))
    /\ UNCHANGED <<pc, future, value, arg, urlOps, written>>

\* body as it would be with `self.body.take()`: the field is left None.
Body_takes ==
    /\ Holding
    /\ Called("body", BodyRef(ewb.body))
    /\ ewb' = [ewb EXCEPT !.body = None]
    /\ UNCHANGED <<pc, future, made, origin, given, arg, urlOps, written>>

Body ==
    /\ Holding
    /\ Called("body", BodyRef(ewb.body))
    /\ UNCHANGED <<pc, future, value, arg, urlOps, written>>

DisplayFmt ==
    /\ Holding
    /\ Called("fmt", Text(fmt(ewb)))
    /\ UNCHANGED <<pc, future, value, arg, urlOps, written>>

Source ==
    /\ Holding
    /\ Called("source", ErrorRef(source(ewb)))
    /\ UNCHANGED <<pc, future, value, arg, urlOps, written>>

\* What a caller writes through the references it borrows.
CallerErrors == RequestErrors
CallerResults == {Ok(<<>>)} \cup {Err(x) : x \in ReadErrors}

\* ErrorWithBody::inner_mut is `&mut self.inner`: the caller assigns w to it.
inner_mut(self, w) == [self EXCEPT !.inner = w]

\* ErrorWithBody::body_mut is `self.body.as_mut()`: a reference into the
\* Some, which the caller assigns w to, and no reference at all for None.
body_mut(self, w) == IF self.body.tag = "Some" THEN [self EXCEPT !.body.val = w] ELSE self

\* The values a caller leaves behind inner_mut's reference: its own errors,
\* or the error that was there.
InnerWrites == CallerErrors \cup (IF ewb = NoValue THEN {} ELSE {ewb.inner})

InnerMut(w) ==
    /\ Holding
    /\ ewb' = inner_mut(ewb, w)
    /\ written' = (written \/ ewb' # ewb)
    /\ Called("inner_mut", ErrorRef(ewb'.inner))
    /\ UNCHANGED <<pc, future, made, origin, given, arg, urlOps>>

BodyMut(w) ==
    /\ Holding
    /\ ewb' = body_mut(ewb, w)
    /\ written' = (written \/ ewb' # ewb)
    /\ Called("body_mut", BodyRef(ewb'.body))
    /\ UNCHANGED <<pc, future, made, origin, given, arg, urlOps>>

WithUrl(url) ==
    /\ Holding
    /\ ewb' = with_url(ewb, url)
    /\ arg' = url
    /\ urlOps' = TRUE
    /\ Called("with_url", Unit)
    /\ UNCHANGED <<pc, future, made, origin, given, written>>

WithoutUrl ==
    /\ Holding
    /\ ewb' = without_url(ewb)
    /\ urlOps' = TRUE
    /\ Called("without_url", Unit)
    /\ UNCHANGED <<pc, future, made, origin, given, arg, written>>

\* The consuming extractors: the value is moved out of, and gone.
IntoInner ==
    /\ Holding
    /\ Called("into_inner", ErrorRef(into_inner(ewb)))
    /\ pc' = "Consumed"
    /\ UNCHANGED <<future, value, arg, urlOps, written>>

IntoBody ==
    /\ Holding
    /\ Called("into_body", BodyRef(into_body(ewb)))
    /\ pc' = "Consumed"
    /\ UNCHANGED <<future, value, arg, urlOps, written>>

IntoParts ==
    /\ Holding
    /\ Called("into_parts", Parts(into_parts(ewb)))
    /\ pc' = "Consumed"
    /\ UNCHANGED <<future, value, arg, urlOps, written>>

Next ==
    \/ \E resp \in Responses : Call(resp)
    \/ Poll
    \/ ReadFrame
    \/ ReadDone
    \/ \E err \in ReadErrors : ReadError(err)
    \/ Drop
    \/ ReadPassed
    \/ \E err \in RequestErrors : From(err)
    \/ Inner
    \/ Body
    \/ DisplayFmt
    \/ Source
    \/ \E w \in InnerWrites : InnerMut(w)
    \/ \E w \in CallerResults : BodyMut(w)
    \/ \E url \in Urls : WithUrl(url)
    \/ WithoutUrl
    \/ IntoInner
    \/ IntoBody
    \/ IntoParts

Spec == Init /\ [][Next]_vars

\* ------------------------------------------------------------- claims
\* The future of error_for_status_with_body has resolved.
Resolved == response # NoResponse /\ pc \in {"Checked", "Done", "Consumed"}

\* C1: a response with a status in 200..399 comes back as Ok(response), the
\* very response that went in, with no call of bytes() and nothing pulled
\* off its body stream; read afterwards, it yields its whole body.
C1_SuccessReturnsResponseUnconsumed ==
    (Resolved /\ response.status >= 200 /\ response.status <= 399) =>
        /\ result = Passed(response)
        /\ reads = 0
        /\ buf = <<>>
        /\ ewb = NoValue
        /\ pc = "Checked" => drained = 0
        /\ pc = "Done" => payload = response.body

C1_Witness ==
    /\ pc = "Done"
    /\ response.status = 399
    /\ result.tag = "Passed"
    /\ payload = <<65, 10>>

\* C2 as stated: every status outside 200..399 ends in Err with a body
\* outcome that is Some.
C2_OutsideSuccessRangeFails ==
    (Resolved /\ ~(response.status >= 200 /\ response.status <= 399)) =>
        /\ result.tag = "Failed"
        /\ result.err.body.tag = "Some"

\* C2 amended: every client or server error status (400..599), the statuses
\* error_for_status_ref fails on, ends in Err with a body outcome that is
\* Some, whether the body read succeeded or failed.
C2_ErrorStatusFailsWithBodyPresent ==
    (Resolved /\ response.status >= 400 /\ response.status <= 599) =>
        /\ result.tag = "Failed"
        /\ result.err.body.tag = "Some"
        /\ result.err.body.val.tag \in {"Ok", "Err"}

C2_Witness ==
    /\ Resolved
    /\ response.status = 599
    /\ result.tag = "Failed"
    /\ result.err.body.tag = "Some"
    /\ result.err.body.val.tag = "Err"

\* C3: with a failing status and a body stream that never errored, the body
\* outcome is Ok with exactly the bytes of the response body, in order.
C3_BodyBytesExact ==
    (Resolved /\ result.tag = "Failed" /\ streamErr = NoError) =>
        /\ result.err.body = Some(Ok(response.body))
        /\ drained = Len(response.body)

C3_Witness ==
    /\ Resolved
    /\ result.tag = "Failed"
    /\ streamErr = NoError
    /\ response.body = <<200, 65>>
    /\ result.err.body.val.bytes = <<200, 65>>

\* C4: with a failing status and a body read that failed, the outcome is
\* still Err(ErrorWithBody), its body is Some(Err(the read error)) and its
\* inner is the status error of the response's status and url.
C4_ReadErrorKeptBesideStatusError ==
    (Resolved /\ response.status >= 400 /\ response.status <= 599
              /\ streamErr # NoError) =>
        /\ result.tag = "Failed"
        /\ result.err.body = Some(Err(streamErr))
        /\ result.err.inner =
               [kind |-> "Status", code |-> response.status, url |-> response.url]
        /\ result.err.inner # streamErr

C4_Witness ==
    /\ Resolved
    /\ response.status = 500
    /\ streamErr # NoError
    /\ result.tag = "Failed"
    /\ result.err.body.val.tag = "Err"
    /\ drained = 1
    /\ Len(response.body) = 2

\* The step is a call of method op on the held value.
IsOp(op) == nOps' = nOps + 1 /\ lastOp' = op

\* C5: the rendering is the inner error's rendering, then ', body: ' and
\* the debug form of the bytes for Some(Ok), ', error reading body: ' and
\* the read error's rendering for Some(Err), and nothing for None.
C5_RenderingBySuffix ==
    lastOp = "fmt" =>
        /\ out.tag = "text"
        /\ ewb.body = None => out.s = error_display(ewb.inner)
        /\ (ewb.body.tag = "Some" /\ ewb.body.val.tag = "Ok") =>
               out.s = error_display(ewb.inner) \o ", body: b\""
                       \o bytes_escaped(ewb.body.val.bytes) \o "\""
        /\ (ewb.body.tag = "Some" /\ ewb.body.val.tag = "Err") =>
               out.s = error_display(ewb.inner) \o ", error reading body: "
                       \o error_display(ewb.body.val.err)

C5_Witness ==
    /\ lastOp = "fmt"
    /\ nOps = 1
    /\ response # NoResponse
    /\ response.status = 403
    /\ response.body = <<65, 10>>
    /\ out = Text("HTTP status client error (403 Forbidden) for url (http://a/), body: b\"A\\n\"")

\* C6: into_parts yields exactly (inner, body), into_inner and into_body its
\* first and second component, and the rendering derived from the pair is
\* the rendering the value gave itself just before it was taken apart.
C6_PartsAreTheFields ==
    /\ [](/\ lastOp = "into_parts" =>
               /\ out.inner = ewb.inner
               /\ out.body = ewb.body
               /\ fmt(ErrorWithBody(out.inner, out.body)) = fmt(ewb)
          /\ lastOp = "into_inner" => out = ErrorRef(ewb.inner)
          /\ lastOp = "into_body" => out = BodyRef(ewb.body))
    /\ [][(lastOp = "fmt" /\ IsOp("into_parts")) =>
              fmt(ErrorWithBody(out'.inner, out'.body)) = out.s]_vars

C6_Witness ==
    /\ lastOp = "into_parts"
    /\ nOps = 2
    /\ out.body.tag = "Some"
    /\ out.body.val.tag = "Ok"
    /\ out.body.val.bytes = <<10, 200>>
    /\ out.inner.url = NoUrl

\* The value v as it would be had its error never carried a url.
NeverUrl(v) ==
    ErrorWithBody([kind |-> v.inner.kind, code |-> v.inner.code, url |-> NoUrl], v.body)

\* C7: with_url sets the error's url to the one given, whatever was there;
\* without_url clears it; neither touches body or the rest of the error;
\* and with_url then without_url renders as the value without any url does.
C7_UrlAttachThenStrip ==
    [][/\ IsOp("with_url") =>
              /\ ewb'.inner.url = arg'
              /\ ewb'.inner.kind = ewb.inner.kind
              /\ ewb'.inner.code = ewb.inner.code
              /\ ewb'.body = ewb.body
       /\ IsOp("without_url") =>
              /\ ewb'.inner.url = NoUrl
              /\ ewb'.inner.kind = ewb.inner.kind
              /\ ewb'.inner.code = ewb.inner.code
              /\ ewb'.body = ewb.body
       /\ (lastOp = "with_url" /\ IsOp("without_url")) =>
              /\ fmt(ewb') = fmt(NeverUrl(ewb))
              /\ (nOps = 1 /\ made.inner.url = NoUrl) => fmt(ewb') = fmt(made)
      ]_vars

C7_Witness ==
    /\ lastOp = "without_url"
    /\ nOps = 2
    /\ arg = "http://b/?t=s"
    /\ origin = "status"
    /\ made.inner.url = "http://a/"
    /\ ewb.body.val.tag = "Ok"
    /\ fmt(ewb) = "HTTP status server error (500 Internal Server Error), body: b\"\\xc8\""

\* C8 as stated: but for with_url and without_url, inner and body keep the
\* values they were constructed with.
C8_FieldsFixedButForUrl ==
    (ewb # NoValue /\ ~urlOps) => (ewb.inner = made.inner /\ ewb.body = made.body)

\* C8 amended: inner and body keep the values they were constructed with
\* but for with_url, without_url and a write the caller makes through the
\* reference inner_mut or body_mut returned; inner, body, the rendering,
\* source and the extractors change neither.
C8_FieldsFixedButForUrlAndWrites ==
    (ewb # NoValue /\ ~urlOps /\ ~written) =>
        (ewb.inner = made.inner /\ ewb.body = made.body)

C8_Witness ==
    /\ ewb # NoValue
    /\ ~urlOps
    /\ ~written
    /\ nOps = 2
    /\ lastOp = "body"
    /\ out.b.tag = "Some"
    /\ ewb = made

\* C9: body is None exactly in the values From made; From keeps the error
\* it was given as inner; and no later call changes whether body is there.
C9_BodyAbsentIffFromConversion ==
    ewb # NoValue =>
        /\ (ewb.body = None) <=> (origin = "From")
        /\ (ewb.body.tag = "Some") <=> (origin = "status")
        /\ origin = "From" => (made.inner = given /\ made.body = None)
        /\ (origin = "From" /\ nOps = 0) => ewb.inner = given

C9_Witness ==
    /\ origin = "From"
    /\ nOps = 2
    /\ lastOp = "body_mut"
    /\ urlOps
    /\ ewb.body = None
    /\ out = BodyRef(None)

\* C10: the status is looked at once, before any read of the body; bytes()
\* is called at most once and only for a failing status; Unchecked holds
\* nothing but the response; a resolved future is Passed(response) or
\* Failed(ErrorWithBody) and stays what it is; and the step that ends the
\* body read, with bytes or with an error, is the step that resolves it.
C10_CheckThenReadOnce ==
    /\ [](/\ inspected <= 1
          /\ reads <= 1
          /\ reads = 1 => (inspected = 1 /\ ~error_for_status_ref(response).ok
                           /\ e = status_code(response.url, response.status))
          /\ (drained > 0 /\ pc # "Done") => reads = 1
          /\ pc = "Unchecked" => (inspected = 0 /\ reads = 0 /\ result = Pending
                                  /\ drained = 0 /\ ewb = NoValue)
          /\ pc = "Reading" => (reads = 1 /\ result = Pending /\ streamErr = NoError)
          /\ Resolved => (/\ inspected = 1
                          /\ result.tag \in {"Passed", "Failed"}
                          /\ (result.tag = "Passed") <=> (reads = 0)
                          /\ (result.tag = "Failed") <=> (reads = 1)))
    /\ [][/\ result # Pending => result' = result
          /\ (pc = "Unchecked" /\ pc' # "Unchecked") =>
                 pc' \in {"Checked", "Reading", "Dropped"}
          /\ (pc = "Reading" /\ pc' # "Reading") => pc' \in {"Checked", "Dropped"}
          /\ (pc = "Reading" /\ pc' = "Reading") =>
                 (drained' = drained + 1 /\ reads' = reads)
          /\ (pc = "Reading" /\ streamErr' # NoError) =>
                 (pc' = "Checked" /\ result'.tag = "Failed")
          /\ (pc = "Reading" /\ pc' = "Checked") => result'.tag = "Failed"
         ]_vars

C10_Witness ==
    /\ pc = "Checked"
    /\ result.tag = "Failed"
    /\ inspected = 1
    /\ reads = 1
    /\ drained = 2
    /\ nOps = 0
    /\ streamErr # NoError

====
